---- MODULE Spec2Model ----
(***************************************************************************)
(* A model of data_utils.py: the length-bucketed distributed batch sampler *)
(* (DistributedBucketSampler), the padding collate functions and the       *)
(* manifest-backed loaders.                                                *)
(*                                                                         *)
(* Python lists are sequences; item indices and the entries of index lists *)
(* keep Python's 0-based values, so list[k] is written s[k + 1].           *)
(***************************************************************************)
EXTENDS Integers, Sequences, FiniteSets, TLC

\* ------------------------------------------------------------------------
\* Bounds of the model
\* ------------------------------------------------------------------------
\* longest dataset (number of items) handed to the sampler
MaxItems == 2
\* item lengths are 1..MaxLen, boundary values 0..MaxLen
MaxLen == 2
\* batch sizes are 1..MaxBatchSize (and -1, 0 where every configuration is tried)
MaxBatchSize == 3
\* num_replicas is 1..MaxReplicas
MaxReplicas == 2
\* epochs are 0..MaxEpoch
MaxEpoch == 1
\* longest manifest
MaxManifest == 3
\* most files on disk for the data pipeline
MaxFiles == 2
\* most items in a batch handed to a collate function
MaxRows == 2

VARIABLES
    dataset,     \* the dataset handed to the sampler: [lengths |-> list of int]
    args,        \* the constructor's arguments
    pc,          \* "new" | "ready" (constructed) | "failed" (constructor raised)
    sampler,     \* the fields of the DistributedBucketSampler object
    ret,         \* the outcome of the last __init__ / __iter__ call
    prng,        \* which pseudo-random function torch.Generator computes
    manifest,    \* the records <<path, length>> of the manifest file, in order
    loader,      \* the fields of the manifest-backed loader object
    fetched,     \* the last __getitem__ call on it: its index and the path loaded
    dataloader,  \* the loader / collate pair of the data pipeline and the files
    batch,       \* the list of items fetched for the next batch
    collated     \* what the collate function returned for the batch

samplerVars == <<dataset, args, pc, sampler, ret, prng>>
loaderVars == <<manifest, loader, fetched>>
collateVars == <<dataloader, batch, collated>>
vars == <<dataset, args, pc, sampler, ret, prng, manifest, loader, fetched,
          dataloader, batch, collated>>

\* ------------------------------------------------------------------------
\* Python arithmetic and list operations
\* ------------------------------------------------------------------------
\* a // b for b # 0 (floor division, any sign)
PyFloorDiv(a, b) == IF b > 0 THEN a \div b ELSE (0 - a) \div (0 - b)

\* a % b for b # 0 (the result has the sign of b)
PyMod(a, b) == a - b * PyFloorDiv(a, b)

\* list(range(n))
Range0(n) == [i \in 1..n |-> i - 1]

\* list.pop(k) seen as the remaining list (k is the 0-based position)
Pop(s, k) == SubSeq(s, 1, k) \o SubSeq(s, k + 2, Len(s))

\* s[:k] for k >= 0
Prefix(s, k) == SubSeq(s, 1, IF k < Len(s) THEN k ELSE Len(s))

\* s * k (the empty list when k <= 0)
RECURSIVE Repeat(_, _)
Repeat(s, k) == IF k <= 0 THEN <<>> ELSE s \o Repeat(s, k - 1)

\* s[start::step] for 0 <= start, step >= 1
Stride(s, start, step) ==
    LET n == IF Len(s) > start THEN (Len(s) - start + step - 1) \div step ELSE 0
    IN  [j \in 1..n |-> s[start + (j - 1) * step + 1]]

\* sum(list of int)
RECURSIVE Sum(_)
Sum(s) == IF s = <<>> THEN 0 ELSE Head(s) + Sum(Tail(s))

\* list1 + list2 + ... for a list of lists
RECURSIVE Concat(_)
Concat(ss) == IF ss = <<>> THEN <<>> ELSE Head(ss) \o Concat(Tail(ss))

Factorial[n \in Nat] == IF n = 0 THEN 1 ELSE n * Factorial[n - 1]

\* the k-th arrangement (0 <= k < Len(pool)!) of pool, in lexicographic order
RECURSIVE Unrank(_, _)
Unrank(pool, k) ==
    IF pool = <<>> THEN <<>>
    ELSE LET f == Factorial[Len(pool) - 1]
             i == k \div f
         IN  <<pool[i + 1]>> \o Unrank(Pop(pool, i), k % f)

\* ------------------------------------------------------------------------
\* torch.Generator / torch.randperm
\* ------------------------------------------------------------------------
\* a seeding that keeps what earlier iterations left behind
manual_seed_leftover(seed) == [seed |-> seed + Len(sampler.batches), draws |-> 0]

\* g = torch.Generator(); g.manual_seed(seed): a generator is its seed and the
\* number of draws made from it; nothing else feeds it.
manual_seed(seed) == [seed |-> seed, draws |-> 0]

\* the generator after k calls of torch.randperm(_, generator=g)
Drawn(g, k) == [g EXCEPT !.draws = @ + k]

\* the raw number the generator returns in state g.  torch's generator is a
\* fixed function of (seed, draws); which one is left open by prng.
Raw(g) == prng + 3 * g.seed + 5 * g.draws

\* the pseudo-random functions tried
Prngs == {0, 1}

\* torch.randperm(n, generator=g).tolist(): a permutation of 0..n-1
randperm(n, g) == Unrank(Range0(n), Raw(g) % Factorial[n])

\* ------------------------------------------------------------------------
\* DistributedBucketSampler
\* ------------------------------------------------------------------------
\* _bisect with the interval closed on the wrong side
RECURSIVE bisect_closed_left(_, _, _, _)
bisect_closed_left(boundaries, x, lo, hi) ==
    IF hi > lo
    THEN LET mid == (hi + lo) \div 2
         IN  IF boundaries[mid + 1] <= x /\ x < boundaries[mid + 2]
             THEN mid
             ELSE IF x < boundaries[mid + 1]
                  THEN bisect_closed_left(boundaries, x, lo, mid)
                  ELSE bisect_closed_left(boundaries, x, mid + 1, hi)
    ELSE -1

\* _bisect(x, lo, hi): the bucket of length x, or -1
RECURSIVE bisect(_, _, _, _)
bisect(boundaries, x, lo, hi) ==
    IF hi > lo
    THEN LET mid == (hi + lo) \div 2
         IN  IF boundaries[mid + 1] < x /\ x <= boundaries[mid + 2]
             THEN mid
             ELSE IF x <= boundaries[mid + 1]
                  THEN bisect(boundaries, x, lo, mid)
                  ELSE bisect(boundaries, x, mid + 1, hi)
    ELSE -1

\* _bisect(x) with the default arguments lo=0, hi=None
bisect_default(boundaries, x) == bisect(boundaries, x, 0, Len(boundaries) - 1)

\* the first loop of _create_buckets: bucket b lists, in order, the items i
\* with _bisect(lengths[i]) = b
fill_buckets(lengths, boundaries) ==
    [b \in 1..(Len(boundaries) - 1) |->
        SelectSeq(Range0(Len(lengths)),
                  LAMBDA i : bisect_default(boundaries, lengths[i + 1]) = b - 1)]

\* the second loop of _create_buckets, for i in range(len(buckets) - 1, 0, -1),
\* from position i on: an empty bucket is popped together with boundaries[i + 1]
RECURSIVE drop_empty(_, _, _)
drop_empty(buckets, boundaries, i) ==
    IF i <= 0
    THEN [buckets |-> buckets, boundaries |-> boundaries]
    ELSE IF Len(buckets[i + 1]) = 0
         THEN drop_empty(Pop(buckets, i), Pop(boundaries, i + 1), i - 1)
         ELSE drop_empty(buckets, boundaries, i - 1)

\* rem without the outer modulo: a full extra round when already divisible
padding_no_wrap(len_bucket, total_batch_size) ==
    total_batch_size - PyMod(len_bucket, total_batch_size)

\* rem of _create_buckets, for total_batch_size # 0
padding(len_bucket, total_batch_size) ==
    PyMod(total_batch_size - PyMod(len_bucket, total_batch_size), total_batch_size)

\* _create_buckets(): the buckets, the boundaries it leaves in self.boundaries
\* and num_samples_per_bucket; len_bucket % 0 raises ZeroDivisionError
create_buckets(lengths, boundaries, num_replicas, batch_size) ==
    LET kept == drop_empty(fill_buckets(lengths, boundaries), boundaries,
                           Len(boundaries) - 2)
        total_batch_size == num_replicas * batch_size
    IN  IF total_batch_size = 0 /\ Len(kept.buckets) > 0
        THEN [raised |-> "ZeroDivisionError", buckets |-> kept.buckets,
              boundaries |-> kept.boundaries, num_samples_per_bucket |-> <<>>]
        ELSE [raised |-> "none", buckets |-> kept.buckets,
              boundaries |-> kept.boundaries,
              num_samples_per_bucket |->
                  [i \in 1..Len(kept.buckets) |->
                      Len(kept.buckets[i])
                      + padding(Len(kept.buckets[i]), total_batch_size)]]

\* the object before __init__ has run
NoSampler ==
    [lengths |-> <<>>, batch_size |-> 0, boundaries |-> <<>>, num_replicas |-> 0,
     rank |-> 0, shuffle |-> FALSE, epoch |-> 0, buckets |-> <<>>,
     num_samples_per_bucket |-> <<>>, total_size |-> 0, num_samples |-> 0,
     batches |-> <<>>]

\* __init__(dataset, batch_size, boundaries, num_replicas, rank, shuffle);
\* DistributedSampler.__init__ sets epoch = 0
init(ds, a) ==
    LET made == create_buckets(ds.lengths, a.boundaries, a.num_replicas, a.batch_size)
        total == Sum(made.num_samples_per_bucket)
    IN  [raised |-> made.raised,
         self |-> [lengths |-> ds.lengths, batch_size |-> a.batch_size,
                   boundaries |-> made.boundaries, num_replicas |-> a.num_replicas,
                   rank |-> a.rank, shuffle |-> a.shuffle, epoch |-> 0,
                   buckets |-> made.buckets,
                   num_samples_per_bucket |-> made.num_samples_per_bucket,
                   total_size |-> total,
                   num_samples |-> PyFloorDiv(total, a.num_replicas),
                   batches |-> <<>>]]

\* __len__()
len(self) == PyFloorDiv(self.num_samples, self.batch_size)

\* the list `indices` of __iter__: one permutation per bucket, drawn in bucket
\* order from the generator seeded with the epoch, or the identity
indices(self) ==
    [i \in 1..Len(self.buckets) |->
        IF self.shuffle
        THEN randperm(Len(self.buckets[i]),
                      Drawn(manual_seed(self.epoch), i - 1))
        ELSE Range0(Len(self.buckets[i]))]

\* "add extra samples to make it evenly divisible", for len_bucket # 0
extend(ids_bucket, len_bucket, num_samples_bucket) ==
    LET rem == num_samples_bucket - len_bucket
    IN  ids_bucket \o Repeat(ids_bucket, PyFloorDiv(rem, len_bucket))
                   \o Prefix(ids_bucket, PyMod(rem, len_bucket))

\* "subsample": ids_bucket[self.rank::self.num_replicas]
subsample(ids_bucket, rank, num_replicas) == Stride(ids_bucket, rank, num_replicas)

\* "batching", for batch_size # 0: the full chunks of batch_size entries,
\* mapped to the items of the bucket
batching(bucket, ids_bucket, batch_size) ==
    [j \in 1..PyFloorDiv(Len(ids_bucket), batch_size) |->
        [t \in 1..batch_size |-> bucket[ids_bucket[(j - 1) * batch_size + t] + 1]]]

\* the body of the loop `for i in range(len(self.buckets))` for bucket i
\* (1-based here): the batches it appends, or the error it raises
bucket_batches(self, ids, i) ==
    LET bucket == self.buckets[i]
        len_bucket == Len(bucket)
    IN  IF len_bucket = 0 \/ self.batch_size = 0
        THEN [raised |-> "ZeroDivisionError", batches |-> <<>>]
        ELSE [raised |-> "none",
              batches |->
                  batching(bucket,
                           subsample(extend(ids[i], len_bucket,
                                            self.num_samples_per_bucket[i]),
                                     self.rank, self.num_replicas),
                           self.batch_size)]

\* __iter__(): what it raises, the value it leaves in self.batches and the
\* batches the returned iterator yields
iter(self) ==
    LET ids == indices(self)
        per == [i \in 1..Len(self.buckets) |-> bucket_batches(self, ids, i)]
        unshuffled == Concat([i \in 1..Len(per) |-> per[i].batches])
        g == Drawn(manual_seed(self.epoch), IF self.shuffle THEN Len(self.buckets) ELSE 0)
        batches == IF self.shuffle
                   THEN LET batch_ids == randperm(Len(unshuffled), g)
                        IN  [k \in 1..Len(unshuffled) |-> unshuffled[batch_ids[k] + 1]]
                   ELSE unshuffled
    IN  IF \E i \in 1..Len(per) : per[i].raised # "none"
        THEN [raised |-> "ZeroDivisionError", self_batches |-> self.batches,
              yielded |-> <<>>]
        ELSE IF Len(batches) * self.batch_size # self.num_samples
             THEN [raised |-> "AssertionError", self_batches |-> batches,
                   yielded |-> <<>>]
             ELSE [raised |-> "none", self_batches |-> batches, yielded |-> batches]

\* DistributedSampler.set_epoch(epoch)
set_epoch(self, epoch) == [self EXCEPT !.epoch = epoch]

\* ------------------------------------------------------------------------
\* The sampler's operations as actions
\* ------------------------------------------------------------------------
NoCall == [op |-> "none", raised |-> "none", epoch |-> 0, batches |-> <<>>]

\* sampler = DistributedBucketSampler(dataset, batch_size, boundaries, ...)
Construct ==
    /\ pc = "new"
    /\ LET r == init(dataset, args)
       IN  /\ pc' = IF r.raised = "none" THEN "ready" ELSE "failed"
           /\ sampler' = IF r.raised = "none" THEN r.self ELSE NoSampler
           /\ ret' = [NoCall EXCEPT !.op = "init", !.raised = r.raised]
    /\ UNCHANGED <<dataset, args, prng, collateVars, loaderVars>>

\* sampler.set_epoch(e)
SetEpoch ==
    /\ pc = "ready"
    /\ \E e \in 0..MaxEpoch :
          /\ e # sampler.epoch
          /\ sampler' = set_epoch(sampler, e)
    /\ UNCHANGED <<dataset, args, pc, ret, prng, collateVars, loaderVars>>

\* for batch in sampler: ...
Iter ==
    /\ pc = "ready"
    /\ LET r == iter(sampler)
       IN  /\ sampler' = [sampler EXCEPT !.batches = r.self_batches]
           /\ ret' = [op |-> "iter", raised |-> r.raised, epoch |-> sampler.epoch,
                      batches |-> r.yielded]
    /\ UNCHANGED <<dataset, args, pc, prng, collateVars, loaderVars>>

\* ------------------------------------------------------------------------
\* The manifest-backed loaders: MelLoader, AudioMelMixedMaskRandomLoader
\* ------------------------------------------------------------------------
\* hps.max_length, the frame count lengths are clamped to and mels are cut to
max_length == 2

\* random.seed(1234); random.shuffle(x) for a list x of n entries: entry i of
\* the result is entry Shuffle1234(n)[i] (1-based) of x.  The table is what
\* CPython's Mersenne Twister produces for this seed.
Shuffle1234(n) ==
    CASE n = 0 -> <<>>
      [] n = 1 -> <<1>>
      [] n = 2 -> <<1, 2>>
      [] n = 3 -> <<3, 1, 2>>
      [] n = 4 -> <<2, 3, 1, 4>>
      [] n = 5 -> <<2, 3, 5, 1, 4>>

\* the loader before __init__ has run
NoLoader == [constructed |-> FALSE, paths |-> <<>>, lengths |-> <<>>]

NoFetch == [index |-> -1, path |-> 0]

\* `length if length <= hps.max_length else hps.max_length`
clamp(length) == IF length <= max_length THEN length ELSE max_length

\* __init__(filelist, hps): self.npys / self.npzs (here: paths) and self.lengths
loader_init(lines) ==
    LET npys == [i \in 1..Len(lines) |-> lines[i][1]]
        lengths == [i \in 1..Len(lines) |-> clamp(lines[i][2])]
    IN  [constructed |-> TRUE,
         paths |-> [i \in 1..Len(npys) |-> npys[Shuffle1234(Len(npys))[i]]],
         lengths |-> lengths]

\* the file np.load is given by __getitem__(index)
getitem_path(self, index) == self.paths[index + 1]

\* loader = MelLoader(filelist, hps)
LoaderInit ==
    /\ ~loader.constructed
    /\ loader' = loader_init(manifest)
    /\ UNCHANGED <<manifest, fetched, samplerVars, collateVars>>

\* loader[index]
LoaderGetItem ==
    /\ loader.constructed
    /\ \E index \in 0..(Len(loader.paths) - 1) :
          fetched' = [index |-> index, path |-> getitem_path(loader, index)]
    /\ UNCHANGED <<manifest, loader, samplerVars, collateVars>>

\* ------------------------------------------------------------------------
\* The data pipeline: __getitem__ of the loaders and the collate functions
\* ------------------------------------------------------------------------
\* hps.hop_length, the number of audio samples per mel frame
hop_length == 2

\* A tuple entry is a tensor (its samples along the time axis; the feature axis
\* is the same for every item and left out), a name or None.
Tensor(data) == [type |-> "tensor", data |-> data]
Str(f) == [type |-> "str", data |-> <<f>>]
None == [type |-> "None", data |-> <<>>]

\* the n samples of array `code` of file f; no sample is 0
Samples(f, code, n) == [t \in 1..n |-> 10 * f + code]
MEL == 1
AUDIO == 2
MASKED == 3
MEL_ORIG == 4
AUDIO_ORIG == 5

\* s[lo:hi] for 0 <= lo <= hi
Slice(s, lo, hi) ==
    SubSeq(s, (IF lo < Len(s) THEN lo ELSE Len(s)) + 1, IF hi < Len(s) THEN hi ELSE Len(s))

\* MelLoader.__getitem__(index), with start the value random.randint returns
MelLoader_getitem(files, index, start) ==
    LET mel == Samples(index, MEL, files[index + 1].mel)
        length == Len(mel)
    IN  <<Tensor(IF length >= max_length
                 THEN Slice(mel, start, start + max_length)
                 ELSE mel),
          None>>

\* AudioMelMixedMaskRandomLoader.__getitem__(index)
AudioMelMixedMaskRandomLoader_getitem(files, return_name, index, start) ==
    LET full == Samples(index, MEL, files[index + 1].mel)
        wave == Samples(index, AUDIO, files[index + 1].audio)
        length == Len(full)
        cut == length >= max_length
        mel == IF cut THEN Slice(full, start, start + max_length) ELSE full
        audio == IF cut
                 THEN Slice(wave, start * hop_length, (start + max_length) * hop_length)
                 ELSE wave
        masked_mel == [t \in 1..Len(mel) |-> 10 * index + MASKED]
    IN  IF return_name
        THEN <<Tensor(mel), Tensor(audio), Str(index)>>
        ELSE <<Tensor(masked_mel), Tensor(audio), Tensor(mel)>>

\* InpaintMelAudioLoader.__getitem__(index)
InpaintMelAudioLoader_getitem(files, index) ==
    <<Tensor(Samples(index, MEL, files[index + 1].mel)),
      Tensor(Samples(index, MEL_ORIG, files[index + 1].mel_orig)),
      Tensor(Samples(index, AUDIO_ORIG, files[index + 1].audio)),
      Str(index)>>

\* the values random.randint(0, length - max_length) can return (only drawn
\* when length >= max_length)
Starts(length) == IF length >= max_length THEN 0..(length - max_length) ELSE {0}

\* padded[i, :, :x.size(1)] = x into a zeroed row of `width` entries, and
\* lengths[i] = x.size(1): x.size fails on a name or None, the assignment
\* fails when x is wider than the row
pad_row(x, width) ==
    IF x.type # "tensor"
    THEN [raised |-> "AttributeError", row |-> <<>>, length |-> 0]
    ELSE IF Len(x.data) > width
         THEN [raised |-> "RuntimeError", row |-> <<>>, length |-> 0]
         ELSE [raised |-> "none",
               row |-> [t \in 1..width |-> IF t <= Len(x.data) THEN x.data[t] ELSE 0],
               length |-> Len(x.data)]

\* the orders torch.sort(lengths, descending=True) can return as
\* ids_sorted_decreasing; the sort is not stable, so ties come in any order
sorted_decreasing(b) ==
    {p \in {Unrank(Range0(Len(b)), k) : k \in 0..(Factorial[Len(b)] - 1)} :
        \A i, j \in 1..Len(b) :
            i < j => Len(b[p[i] + 1][1].data) >= Len(b[p[j] + 1][1].data)}

\* the first error raised by a list of pad_row results, or "none"
first_raised(rs) ==
    IF \A i \in 1..Len(rs) : rs[i].raised = "none"
    THEN "none"
    ELSE rs[CHOOSE i \in 1..Len(rs) :
                /\ rs[i].raised # "none"
                /\ \A j \in 1..(i - 1) : rs[j].raised = "none"].raised

Rows(rs) == [i \in 1..Len(rs) |-> rs[i].row]
Lengths(rs) == [i \in 1..Len(rs) |-> rs[i].length]

\* MelCollate.__call__(batch), for the order ids the sort returned
MelCollate(b, ids) ==
    LET mel == [i \in 1..Len(ids) |-> pad_row(b[ids[i] + 1][1], max_length)]
    IN  [raised |-> first_raised(mel),
         out |-> IF first_raised(mel) = "none"
                 THEN <<Rows(mel), Lengths(mel)>>
                 ELSE <<>>]

\* the pad_row results of rows 1..n interleaved as the loop runs them
Interleave(cols) ==
    LET n == Len(cols[1])
    IN  [k \in 1..(n * Len(cols)) |->
            cols[((k - 1) % Len(cols)) + 1][((k - 1) \div Len(cols)) + 1]]

\* AudioMelMaskCollate.__call__(batch)
AudioMelMaskCollate(b, return_name, ids) ==
    LET masked_mel == [i \in 1..Len(ids) |-> pad_row(b[ids[i] + 1][1], max_length)]
        wav == [i \in 1..Len(ids) |->
                   pad_row(b[ids[i] + 1][2], max_length * hop_length)]
        raw == [i \in 1..Len(ids) |-> pad_row(b[ids[i] + 1][3], max_length)]
        names == [i \in 1..Len(ids) |-> b[ids[i] + 1][Len(b[ids[i] + 1])]]
        raised == first_raised(Interleave(<<masked_mel, wav, raw>>))
    IN  [raised |-> raised,
         out |-> IF raised # "none" THEN <<>>
                 ELSE IF return_name
                      THEN <<Rows(masked_mel), Lengths(masked_mel), Rows(wav),
                             Lengths(wav), names>>
                      ELSE <<Rows(masked_mel), Lengths(masked_mel), Rows(wav),
                             Lengths(wav), Rows(raw)>>]

\* InpaintMelAudioCollate.__call__(batch)
InpaintMelAudioCollate(b, ids) ==
    LET mel == [i \in 1..Len(ids) |-> pad_row(b[ids[i] + 1][1], max_length)]
        orig == [i \in 1..Len(ids) |-> pad_row(b[ids[i] + 1][2], max_length)]
        gt == [i \in 1..Len(ids) |->
                  pad_row(b[ids[i] + 1][3], max_length * hop_length)]
        names == [i \in 1..Len(ids) |-> b[ids[i] + 1][Len(b[ids[i] + 1])]]
        raised == first_raised(Interleave(<<mel, orig, gt>>))
    IN  [raised |-> raised,
         out |-> IF raised # "none" THEN <<>>
                 ELSE <<Rows(mel), Lengths(mel), Rows(orig), Lengths(orig),
                        Rows(gt), Lengths(gt), names>>]

NoDataLoader == [kind |-> "none", return_name |-> FALSE, files |-> <<>>]
NoCollated == [op |-> "none", raised |-> "none", out |-> <<>>]

\* item = dataset[index], appended to the batch being assembled
GetItem ==
    /\ dataloader.kind # "none"
    /\ collated.op = "none"
    /\ Len(batch) < MaxRows
    /\ \E index \in 0..(Len(dataloader.files) - 1) :
       \E start \in Starts(dataloader.files[index + 1].mel) :
          batch' = Append(batch,
                     CASE dataloader.kind = "Mel" ->
                              MelLoader_getitem(dataloader.files, index, start)
                       [] dataloader.kind = "AudioMelMask" ->
                              AudioMelMixedMaskRandomLoader_getitem(
                                  dataloader.files, dataloader.return_name, index, start)
                       [] dataloader.kind = "InpaintMelAudio" ->
                              InpaintMelAudioLoader_getitem(dataloader.files, index))
    /\ UNCHANGED <<dataloader, collated, samplerVars, loaderVars>>

\* collate_fn(batch), for the collate function paired with the loader
Collate ==
    /\ collated.op = "none"
    /\ batch # <<>>
    /\ \E ids \in sorted_decreasing(batch) :
          LET r == CASE dataloader.kind = "Mel" -> MelCollate(batch, ids)
                     [] dataloader.kind = "AudioMelMask" ->
                            AudioMelMaskCollate(batch, dataloader.return_name, ids)
                     [] dataloader.kind = "InpaintMelAudio" ->
                            InpaintMelAudioCollate(batch, ids)
          IN  collated' = [op |-> dataloader.kind, raised |-> r.raised, out |-> r.out]
    /\ UNCHANGED <<dataloader, batch, samplerVars, loaderVars>>

\* ------------------------------------------------------------------------
\* Specifications of the sampler
\* ------------------------------------------------------------------------
\* the lists of at most n entries drawn from S
SeqsUpTo(S, n) == UNION {[1..k -> S] : k \in 0..n}

StrictlyIncreasing(s) == \A i \in 1..(Len(s) - 1) : s[i] < s[i + 1]

SamplerIdle == /\ dataset = [lengths |-> <<>>]
               /\ args = [batch_size |-> 1, boundaries |-> <<>>, num_replicas |-> 1,
                          rank |-> 0, shuffle |-> FALSE]
               /\ pc = "new"
               /\ sampler = NoSampler
               /\ ret = NoCall
               /\ prng = 0

LoaderIdle == /\ manifest = <<>>
              /\ loader = NoLoader
              /\ fetched = NoFetch

CollateIdle == /\ dataloader = NoDataLoader
               /\ batch = <<>>
               /\ collated = NoCollated

\* a sampler about to be constructed from a configuration that meets the
\* documented preconditions: strictly increasing boundaries, batch_size >= 1,
\* num_replicas >= 1 and 0 <= rank < num_replicas
Init ==
    /\ dataset \in [lengths : SeqsUpTo(1..MaxLen, MaxItems)]
    /\ args \in {a \in [batch_size : 1..MaxBatchSize,
                        boundaries : SeqsUpTo(0..MaxLen, MaxLen + 1),
                        num_replicas : 1..MaxReplicas,
                        rank : 0..(MaxReplicas - 1),
                        shuffle : BOOLEAN] :
                    /\ StrictlyIncreasing(a.boundaries)
                    /\ a.rank < a.num_replicas}
    /\ pc = "new"
    /\ sampler = NoSampler
    /\ ret = NoCall
    /\ prng \in (IF args.shuffle THEN Prngs ELSE {0})
    /\ CollateIdle
    /\ LoaderIdle

Next == Construct \/ SetEpoch \/ Iter

Spec == Init /\ [][Next]_vars

\* a sampler about to be constructed from any configuration the constructor
\* accepts: boundaries in any order, batch_size of any sign
InitAny ==
    /\ dataset \in [lengths : SeqsUpTo(1..MaxLen, MaxItems)]
    /\ args \in {a \in [batch_size : -1..MaxBatchSize,
                        boundaries : SeqsUpTo(0..MaxLen, MaxLen + 1),
                        num_replicas : 1..MaxReplicas,
                        rank : 0..(MaxReplicas - 1),
                        shuffle : BOOLEAN] :
                    a.rank < a.num_replicas}
    /\ pc = "new"
    /\ sampler = NoSampler
    /\ ret = NoCall
    /\ prng = 0
    /\ CollateIdle
    /\ LoaderIdle

SpecAny == InitAny /\ [][Next]_vars

\* ------------------------------------------------------------------------
\* Properties of the sampler
\* ------------------------------------------------------------------------
\* length(x) of item x
ItemLength(x) == dataset.lengths[x + 1]

\* how many times x occurs in the list s
RECURSIVE Count(_, _)
Count(x, s) ==
    IF s = <<>> THEN 0 ELSE (IF Head(s) = x THEN 1 ELSE 0) + Count(x, Tail(s))

\* the set of entries of the list s
Entries(s) == {s[i] : i \in 1..Len(s)}

\* every item's length falls outside all buckets of the boundaries given
AllBucketsEmpty ==
    \A i \in 1..Len(dataset.lengths) :
        bisect_default(args.boundaries, dataset.lengths[i]) = -1

\* C1: every iteration of a sampler built from a valid configuration completes
\* without an error (in particular without failing the assertion
\* len(batches) * batch_size == num_samples) and yields len(sampler) batches.
C1_IterYieldsLenBatches ==
    ret.op = "iter" =>
        /\ ret.raised = "none"
        /\ Len(ret.batches) = len(sampler)

C3_BatchWithinOneBucket ==
    ret.op = "iter" =>
        \A k \in 1..Len(ret.batches) :
            LET b == ret.batches[k]
                bs == sampler.boundaries
            IN  /\ Len(b) = sampler.batch_size
                /\ \E i \in 1..(Len(bs) - 1) :
                      \A t \in 1..Len(b) :
                          bs[i] < ItemLength(b[t]) /\ ItemLength(b[t]) <= bs[i + 1]
                /\ \A t \in 1..Len(b) :
                      /\ bs[1] < ItemLength(b[t])
                      /\ ItemLength(b[t]) <= bs[Len(bs)]
                      /\ args.boundaries[1] < ItemLength(b[t])
                      /\ ItemLength(b[t]) <= args.boundaries[Len(args.boundaries)]

\* C3 witness: an iteration yielded batches of two or more items drawn from two
\* different buckets.
C3_Witness ==
    /\ ret.op = "iter"
    /\ sampler.batch_size >= 2
    /\ Len(sampler.buckets) >= 2
    /\ \E k1, k2 \in 1..Len(ret.batches) :
          ItemLength(ret.batches[k1][1]) # ItemLength(ret.batches[k2][1])

\* the batches rank r yields at the epoch of the last iteration
YieldedOnRank(r) ==
    IF r = sampler.rank
    THEN ret.batches
    ELSE iter([sampler EXCEPT !.rank = r, !.epoch = ret.epoch]).yielded

\* the padded index list of (non-empty) bucket b at the epoch of the last
\* iteration, as items
PaddedItems(b) ==
    LET self == [sampler EXCEPT !.epoch = ret.epoch]
        ids == extend(indices(self)[b], Len(self.buckets[b]),
                      self.num_samples_per_bucket[b])
    IN  [k \in 1..Len(ids) |-> self.buckets[b][ids[k] + 1]]

\* C4: at a fixed epoch, for every bucket, the entries of the batches of all
\* ranks drawn from the bucket are, as a multiset, the bucket's padded index
\* list; every rank gets num_samples_per_bucket / num_replicas of them and every
\* item of the bucket appears at least once.
C4_RanksCoverPaddedBucket ==
    ret.op = "iter" =>
        \A b \in 1..Len(sampler.buckets) :
            sampler.buckets[b] # <<>> =>
                /\ \A x \in Entries(sampler.buckets[b]) :
                      /\ Count(x, PaddedItems(b))
                            = Sum([r \in 1..sampler.num_replicas |->
                                     Count(x, Concat(YieldedOnRank(r - 1)))])
                      /\ \E r \in 0..(sampler.num_replicas - 1) :
                            Count(x, Concat(YieldedOnRank(r))) >= 1
                /\ \A r \in 0..(sampler.num_replicas - 1) :
                      Sum([k \in 1..Len(sampler.buckets[b]) |->
                             Count(sampler.buckets[b][k], Concat(YieldedOnRank(r)))])
                         * sampler.num_replicas
                         = sampler.num_samples_per_bucket[b]

\* the first iteration, at epoch e, of a sampler constructed independently
\* from the same configuration
FreshIter(e) == iter(set_epoch(init(dataset, args).self, e))

\* C5: whatever set_epoch and iteration calls came before, an iteration at
\* epoch e yields what the first iteration at epoch e of an independently
\* constructed sampler of the same configuration and rank yields.
C5_IterationDependsOnEpochOnly ==
    ret.op = "iter" =>
        LET fresh == FreshIter(ret.epoch)
        IN  /\ ret.raised = fresh.raised
            /\ ret.batches = fresh.yielded

\* C5 witness: an iteration after set_epoch, at an epoch other than the one of
\* construction, with shuffling on, whose batch sequence differs from epoch 0's.
C5_Witness ==
    /\ ret.op = "iter"
    /\ sampler.shuffle
    /\ ret.epoch # 0
    /\ Len(ret.batches) >= 2
    /\ ret.batches # FreshIter(0).yielded

\* C6: when every item falls outside all buckets, construction succeeds,
\* len(sampler) is 0 and iterating yields no batch and raises nothing.
C6_EmptySamplerIterates ==
    AllBucketsEmpty =>
        /\ pc # "failed"
        /\ pc = "ready" => len(sampler) = 0
        /\ ret.op = "iter" => (ret.raised = "none" /\ ret.batches = <<>>)

\* C7: boundaries that are not strictly increasing, data that leaves every
\* bucket empty and batch_size <= 0 are rejected by the constructor: no sampler
\* of such a configuration is ever constructed.
C7_BadConfigurationRejected ==
    (\/ ~StrictlyIncreasing(args.boundaries)
     \/ AllBucketsEmpty
     \/ args.batch_size <= 0) => pc # "ready"

\* C9: for a bucket of n >= 1 items and d = num_replicas * batch_size, the
\* bucket's sample target is the least multiple of d that is >= n, and the
\* index list built for the bucket at iteration has exactly target entries, all
\* of them positions of that bucket.
C9_TargetIsNextMultiple ==
    pc = "ready" =>
        \A b \in 1..Len(sampler.buckets) :
            LET n == Len(sampler.buckets[b])
                d == sampler.num_replicas * sampler.batch_size
                target == sampler.num_samples_per_bucket[b]
                ids == extend(indices(sampler)[b], n, target)
            IN  n >= 1 =>
                    /\ target = n + ((d - (n % d)) % d)
                    /\ target >= n
                    /\ target % d = 0
                    /\ target < n + d
                    /\ Len(ids) = target
                    /\ \A k \in 1..Len(ids) : ids[k] \in 0..(n - 1)

\* C9 witness: an iterated sampler with a bucket whose padding is neither empty
\* nor a whole number of repetitions of the bucket.
C9_Witness ==
    /\ ret.op = "iter"
    /\ ret.raised = "none"
    /\ \E b \in 1..Len(sampler.buckets) :
          LET n == Len(sampler.buckets[b])
          IN  /\ n >= 2
              /\ (sampler.num_samples_per_bucket[b] - n) % n # 0

\* ------------------------------------------------------------------------
\* Specification and property of the manifest-backed loaders
\* ------------------------------------------------------------------------
\* a manifest of at most MaxManifest records; record k names the file k and
\* gives a length, some above max_length
InitLoader ==
    /\ manifest \in {[k \in 1..Len(ls) |-> <<k, ls[k]>>] :
                        ls \in SeqsUpTo(1..(max_length + 1), MaxManifest)}
    /\ loader = NoLoader
    /\ fetched = NoFetch
    /\ SamplerIdle
    /\ CollateIdle

NextLoader == LoaderInit \/ LoaderGetItem

SpecLoader == InitLoader /\ [][NextLoader]_vars

\* C10: for every index i of a constructed loader, lengths[i] is the clamped
\* manifest length of the manifest record whose path __getitem__(i) loads.
C10_LengthsAlignedWithPaths ==
    loader.constructed =>
        \A i \in 0..(Len(loader.paths) - 1) :
            \E k \in 1..Len(manifest) :
                /\ manifest[k][1] = getitem_path(loader, i)
                /\ loader.lengths[i + 1] = clamp(manifest[k][2])

\* ------------------------------------------------------------------------
\* Specification and property of the data pipeline
\* ------------------------------------------------------------------------
\* the files a loader of the given kind reads: frame and sample counts up to
\* one more than what fits the padded buffers
FilesOf(kind) ==
    [mel : 1..(max_length + 1),
     mel_orig : IF kind = "InpaintMelAudio" THEN 1..(max_length + 1) ELSE {0},
     audio : IF kind = "Mel" THEN {0} ELSE 1..(max_length * hop_length + 1)]

\* a loader over at most MaxFiles files, paired with its collate function
InitCollate ==
    /\ \E kind \in {"Mel", "AudioMelMask", "InpaintMelAudio"} :
          dataloader \in [kind : {kind}, return_name : BOOLEAN,
                          files : SeqsUpTo(FilesOf(kind), MaxFiles) \ {<<>>}]
    /\ batch = <<>>
    /\ collated = NoCollated
    /\ SamplerIdle
    /\ LoaderIdle

NextCollate == GetItem \/ Collate

SpecCollate == InitCollate /\ [][NextCollate]_vars

\* the true length of entry k of every item fits a row of `width` entries
Fits(k, width) == \A n \in 1..Len(batch) : Len(batch[n][k].data) <= width

\* rows 1..N are the entries k of the items in the order p, zero-padded to
\* `width`
PaddedInOrder(rows, p, k, width) ==
    /\ Len(rows) = Len(batch)
    /\ \A i \in 1..Len(rows) :
          LET x == batch[p[i] + 1][k].data
          IN  /\ Len(rows[i]) = width
              /\ \A t \in 1..width : rows[i][t] = IF t <= Len(x) THEN x[t] ELSE 0

\* the length vector holds the true lengths of the entries k in the order p
LengthsInOrder(lengths, p, k) ==
    /\ Len(lengths) = Len(batch)
    /\ \A i \in 1..Len(lengths) : lengths[i] = Len(batch[p[i] + 1][k].data)

\* the names are the names of the items in the order p
NamesInOrder(names, p) ==
    /\ Len(names) = Len(batch)
    /\ \A i \in 1..Len(names) :
          names[i] = batch[p[i] + 1][Len(batch[p[i] + 1])]

\* p orders the items by non-increasing primary length
NonIncreasing(p) ==
    \A i \in 1..(Len(batch) - 1) :
        Len(batch[p[i] + 1][1].data) >= Len(batch[p[i + 1] + 1][1].data)

Orders == {Unrank(Range0(Len(batch)), k) : k \in 0..(Factorial[Len(batch)] - 1)}

\* C8: for a batch whose primary lengths are all <= max_length (and whose
\* other tensors fit their padded buffers), the collate function returns the
\* items in an order of non-increasing primary length: padded primary rows of
\* width max_length, their true lengths, and every secondary tensor and name
\* of row i taken from the item whose primary tensor is in row i.
C8_CollateKeepsItemsAligned ==
    (/\ collated.op # "none"
     /\ Fits(1, max_length)
     /\ collated.op = "AudioMelMask" =>
            (/\ Fits(2, max_length * hop_length)
             /\ ~dataloader.return_name => Fits(3, max_length))
     /\ collated.op = "InpaintMelAudio" =>
            (Fits(2, max_length) /\ Fits(3, max_length * hop_length)))
    =>
    /\ collated.raised = "none"
    /\ \E p \in Orders :
          /\ NonIncreasing(p)
          /\ PaddedInOrder(collated.out[1], p, 1, max_length)
          /\ LengthsInOrder(collated.out[2], p, 1)
          /\ collated.op = "AudioMelMask" =>
                /\ PaddedInOrder(collated.out[3], p, 2, max_length * hop_length)
                /\ LengthsInOrder(collated.out[4], p, 2)
                /\ IF dataloader.return_name
                   THEN NamesInOrder(collated.out[5], p)
                   ELSE PaddedInOrder(collated.out[5], p, 3, max_length)
          /\ collated.op = "InpaintMelAudio" =>
                /\ PaddedInOrder(collated.out[3], p, 2, max_length)
                /\ LengthsInOrder(collated.out[4], p, 2)
                /\ PaddedInOrder(collated.out[5], p, 3, max_length * hop_length)
                /\ LengthsInOrder(collated.out[6], p, 3)
                /\ NamesInOrder(collated.out[7], p)

====
